---- MODULE Spec2Model ----
(***************************************************************************)
(* Model of frontend/src/lib/sanitize.ts: the XSS sanitization utilities   *)
(* sanitizeInput, isInputSafe and sanitizeNoteInput, together with the     *)
(* module-level DANGEROUS_PATTERNS array whose global regular expressions  *)
(* carry a lastIndex scan position between calls.                          *)
(*                                                                         *)
(* A JavaScript string is a sequence of one-character strings (one per     *)
(* code unit).  String and match positions are JavaScript positions        *)
(* (0-based); the code unit at position i of s is s[i + 1].                *)
(***************************************************************************)
EXTENDS Integers, Sequences, FiniteSets, TLC

(***************************************************************************)
(* Bounds of the model.                                                    *)
(***************************************************************************)
\* largest number of tokens concatenated into one argument of a single call
MaxTokens == 3
\* long arguments are runs of "a" of MAX_LENGTH - PadSlack .. MAX_LENGTH + PadSlack
\* code units (and one of MAX_LENGTH + 1000) followed by a short tail
PadSlack == 1

(***************************************************************************)
(* Program constants.                                                      *)
(***************************************************************************)
\* sanitize.ts:73-74  if (sanitized.length > 5000) substring(0, 5000)
MAX_LENGTH == 5000

\* sanitize.ts:120
ERROR_MESSAGE == "Invalid input: Contains potentially dangerous content"

\* the code unit U+0060 (grave accent), which a TLA+ string cannot hold
Backtick == "U+0060"

\* sanitize.ts:6-15
HTML_ENTITIES ==
  ("&" :> <<"&", "a", "m", "p", ";">>) @@
  ("<" :> <<"&", "l", "t", ";">>) @@
  (">" :> <<"&", "g", "t", ";">>) @@
  ("\"" :> <<"&", "q", "u", "o", "t", ";">>) @@
  ("'" :> <<"&", "#", "x", "2", "7", ";">>) @@
  ("/" :> <<"&", "#", "x", "2", "F", ";">>) @@
  (Backtick :> <<"&", "#", "x", "6", "0", ";">>) @@
  ("=" :> <<"&", "#", "x", "3", "D", ";">>)

\* sanitize.ts:18-30: the seven tag-block patterns (kind "block", the tag
\* name), the three scheme patterns (kind "literal", the token) and the
\* event-handler pattern on\w+\s*= (kind "handler"); all carry the flags gi.
DANGEROUS_PATTERNS == <<
  [kind |-> "block", text |-> <<"s", "c", "r", "i", "p", "t">>],
  [kind |-> "block", text |-> <<"i", "f", "r", "a", "m", "e">>],
  [kind |-> "block", text |-> <<"o", "b", "j", "e", "c", "t">>],
  [kind |-> "block", text |-> <<"e", "m", "b", "e", "d">>],
  [kind |-> "block", text |-> <<"l", "i", "n", "k">>],
  [kind |-> "block", text |-> <<"m", "e", "t", "a">>],
  [kind |-> "block", text |-> <<"s", "t", "y", "l", "e">>],
  [kind |-> "literal", text |-> <<"j", "a", "v", "a", "s", "c", "r", "i", "p", "t", ":">>],
  [kind |-> "literal", text |-> <<"v", "b", "s", "c", "r", "i", "p", "t", ":">>],
  [kind |-> "literal", text |-> <<"d", "a", "t", "a", ":">>],
  [kind |-> "handler", text |-> <<"o", "n">>]
>>

NumPatterns == Len(DANGEROUS_PATTERNS)

(***************************************************************************)
(* Regular-expression primitives.                                          *)
(***************************************************************************)
\* flag i: code units are compared after case canonicalisation; only the
\* ASCII letters fold onto ASCII letters
CaseFold ==
  ("A" :> "a") @@ ("B" :> "b") @@ ("C" :> "c") @@ ("D" :> "d") @@ ("E" :> "e") @@
  ("F" :> "f") @@ ("G" :> "g") @@ ("H" :> "h") @@ ("I" :> "i") @@ ("J" :> "j") @@
  ("K" :> "k") @@ ("L" :> "l") @@ ("M" :> "m") @@ ("N" :> "n") @@ ("O" :> "o") @@
  ("P" :> "p") @@ ("Q" :> "q") @@ ("R" :> "r") @@ ("S" :> "s") @@ ("T" :> "t") @@
  ("U" :> "u") @@ ("V" :> "v") @@ ("W" :> "w") @@ ("X" :> "x") @@ ("Y" :> "y") @@
  ("Z" :> "z")

UpperCaseLetters == DOMAIN CaseFold

Canonicalize(c) == IF c \in UpperCaseLetters THEN CaseFold[c] ELSE c

\* \w and \b
WordChars ==
  {"a", "b", "c", "d", "e", "f", "g", "h", "i", "j", "k", "l", "m", "n", "o", "p",
   "q", "r", "s", "t", "u", "v", "w", "x", "y", "z", "A", "B", "C", "D", "E", "F",
   "G", "H", "I", "J", "K", "L", "M", "N", "O", "P", "Q", "R", "S", "T", "U", "V",
   "W", "X", "Y", "Z", "0", "1", "2", "3", "4", "5", "6", "7", "8", "9", "_"}

\* \s and String.prototype.trim
WhiteSpace == {" ", "\t", "\n"}

NoMatch == [found |-> FALSE, index |-> 0, end |-> 0]

Match(i, e) == [found |-> TRUE, index |-> i, end |-> e]

Least(S) == CHOOSE x \in S : \A y \in S : x <= y

\* the literal lit (lower case) occurs in s at position i, ignoring case
LiteralAt(lit, s, i) ==
  /\ i + Len(lit) <= Len(s)
  /\ \A k \in 1..Len(lit) : Canonicalize(s[i + k]) = lit[k]

\* the first position >= i of s whose code unit is not in set, or Len(s)
RunEnd(set, s, i) ==
  Least({k \in i..Len(s) : k = Len(s) \/ s[k + 1] \notin set})

\* <name\b[^<]*(?:(?!<\/name>)<[^<]*)*<\/name> : neither [^<]* nor the
\* group can step over a "<" that opens "</name>", so a match that starts at
\* "<name" ends with the first "</name>" at or after the word boundary.
OpenTag(name) == <<"<">> \o name

CloseTag(name) == <<"<", "/">> \o name \o <<">">>

BlockOpensAt(name, s, i) ==
  /\ LiteralAt(OpenTag(name), s, i)
  /\ \/ i + Len(name) + 1 = Len(s)
     \/ s[i + Len(name) + 2] \notin WordChars

BlockExec(name, s, from) ==
  LET opens == {p \in from..(Len(s) - 1) : s[p + 1] = "<" /\ BlockOpensAt(name, s, p)}
      closes == {q \in from..(Len(s) - 1) : s[q + 1] = "<" /\ LiteralAt(CloseTag(name), s, q)}
      starts == {p \in opens : \E q \in closes : q >= p + Len(name) + 1}
  IN IF opens = {} \/ starts = {} THEN NoMatch
     ELSE LET p == Least(starts)
              q == Least({c \in closes : c >= p + Len(name) + 1})
          IN Match(p, q + Len(name) + 3)

\* javascript: , vbscript: , data:
LiteralExec(lit, s, from) ==
  LET starts == {p \in from..(Len(s) - 1) : LiteralAt(lit, s, p)}
  IN IF starts = {} THEN NoMatch
     ELSE Match(Least(starts), Least(starts) + Len(lit))

\* on\w+\s*= : \w+ and \s* are greedy and what follows each of them is
\* outside its class, so no backtracking yields another match
HandlerEndAt(s, i) ==
  IF ~LiteralAt(<<"o", "n">>, s, i) THEN -1
  ELSE LET w == RunEnd(WordChars, s, i + 2)
           e == RunEnd(WhiteSpace, s, w)
       IN IF w > i + 2 /\ e < Len(s) /\ s[e + 1] = "=" THEN e + 1 ELSE -1

HandlerExec(s, from) ==
  LET starts == {p \in from..(Len(s) - 1) : HandlerEndAt(s, p) >= 0}
  IN IF starts = {} THEN NoMatch
     ELSE Match(Least(starts), HandlerEndAt(s, Least(starts)))

\* RegExp.prototype.exec of pattern on s from position from (its lastIndex)
RegExpExec(pattern, s, from) ==
  CASE pattern.kind = "block" -> BlockExec(pattern.text, s, from)
    [] pattern.kind = "literal" -> LiteralExec(pattern.text, s, from)
    [] pattern.kind = "handler" -> HandlerExec(s, from)

\* /<[^>]*>/g
TagExec(s, from) ==
  LET starts == {p \in from..(Len(s) - 1) :
                   /\ s[p + 1] = "<"
                   /\ \E q \in (p + 1)..(Len(s) - 1) : s[q + 1] = ">"}
  IN IF starts = {} THEN NoMatch
     ELSE LET p == Least(starts)
          IN Match(p, Least({q \in (p + 1)..(Len(s) - 1) : s[q + 1] = ">"}) + 1)

\* /javascript:|data:/gi
SchemeExec(s, from) ==
  LET a == LiteralExec(<<"j", "a", "v", "a", "s", "c", "r", "i", "p", "t", ":">>, s, from)
      b == LiteralExec(<<"d", "a", "t", "a", ":">>, s, from)
  IN IF a.found /\ (~b.found \/ a.index <= b.index) THEN a ELSE b

(***************************************************************************)
(* JavaScript values: the arguments and results of the three functions.    *)
(***************************************************************************)
String(s) == [type |-> "string", chars |-> s, num |-> 0]

Number(n) == [type |-> "number", chars |-> <<>>, num |-> n]

Boolean(b) == [type |-> "boolean", chars |-> <<>>, num |-> IF b THEN 1 ELSE 0]

Null == [type |-> "null", chars |-> <<>>, num |-> 0]

Undefined == [type |-> "undefined", chars |-> <<>>, num |-> 0]

\* !input
Falsy(v) ==
  \/ v.type \in {"null", "undefined"}
  \/ v.type = "string" /\ v.chars = <<>>
  \/ v.type \in {"number", "boolean"} /\ v.num = 0

\* sanitize.ts:56 and :86  !input || typeof input !== "string"
EmptyEquivalent(input) == Falsy(input) \/ input.type # "string"

\* the outcome of a call: a returned value or a thrown Error
Return(v) == [kind |-> "return", value |-> v, message |-> ""]

Throw(m) == [kind |-> "throw", value |-> Undefined, message |-> m]

(***************************************************************************)
(* The string operations of sanitize.ts.                                   *)
(***************************************************************************)
\* String.prototype.replace(pattern, "") with a global pattern: exec is
\* repeated from the end of the previous match until it fails
RECURSIVE ReplaceFrom(_, _, _)
ReplaceFrom(pattern, s, from) ==
  LET m == RegExpExec(pattern, s, from)
  IN IF ~m.found THEN SubSeq(s, from + 1, Len(s))
     ELSE SubSeq(s, from + 1, m.index) \o ReplaceFrom(pattern, s, m.end)

replace(pattern, s) == ReplaceFrom(pattern, s, 0)

\* text.replace(/[&<>"'`=\/]/g, (char) => entities[char] || char) on
\* text[lo..hi]: one left-to-right pass, each character of the map replaced
\* by its entity, the entities never re-scanned
RECURSIVE EscapeRange(_, _, _, _)
EscapeRange(entities, text, lo, hi) ==
  IF lo > hi THEN <<>>
  ELSE IF lo = hi
       THEN IF text[lo] \in DOMAIN entities THEN entities[text[lo]] ELSE <<text[lo]>>
       ELSE LET mid == (lo + hi) \div 2
            IN EscapeRange(entities, text, lo, mid) \o EscapeRange(entities, text, mid + 1, hi)

\* a variant of escapeHtml whose entity map lacks "<" and ">"
escapeHtmlNoAngle(text) ==
  EscapeRange([c \in DOMAIN HTML_ENTITIES \ {"<", ">"} |-> HTML_ENTITIES[c]],
              text, 1, Len(text))

\* sanitize.ts:35-37
escapeHtml(text) == EscapeRange(HTML_ENTITIES, text, 1, Len(text))

\* sanitized = sanitized.replace(pattern, "") for the patterns k..n in
\* order; replace with a global pattern starts from lastIndex 0 and leaves it 0
RECURSIVE RemoveFrom(_, _, _, _)
RemoveFrom(text, li, k, n) ==
  IF k > n THEN [text |-> text, lastIndex |-> li]
  ELSE RemoveFrom(replace(DANGEROUS_PATTERNS[k], text), [li EXCEPT ![k] = 0], k + 1, n)

\* a variant of removeDangerousPatterns whose list lacks the event-handler
\* pattern
removeDangerousPatternsNoHandler(text, li) == RemoveFrom(text, li, 1, NumPatterns - 1)

\* sanitize.ts:42-48
removeDangerousPatterns(text, li) == RemoveFrom(text, li, 1, NumPatterns)

\* a variant of trim that removes every white space character
trimEverywhere(s) == SelectSeq(s, LAMBDA c : c \notin WhiteSpace)

\* sanitize.ts:61  input.trim()
trim(s) ==
  IF \A k \in 1..Len(s) : s[k] \in WhiteSpace THEN <<>>
  ELSE LET first == CHOOSE k \in 1..Len(s) :
                      s[k] \notin WhiteSpace /\ \A j \in 1..(k - 1) : s[j] \in WhiteSpace
           last == CHOOSE k \in 1..Len(s) :
                     s[k] \notin WhiteSpace /\ \A j \in (k + 1)..Len(s) : s[j] \in WhiteSpace
       IN SubSeq(s, first, last)

\* sanitize.ts:70  sanitized.replace(/<[^>]*>/g, "")
RECURSIVE StripFrom(_, _)
StripFrom(s, from) ==
  LET m == TagExec(s, from)
  IN IF ~m.found THEN SubSeq(s, from + 1, Len(s))
     ELSE SubSeq(s, from + 1, m.index) \o StripFrom(s, m.end)

stripTags(s) == StripFrom(s, 0)

\* a variant of clampLength that cuts one code unit short
clampLengthShort(s) == IF Len(s) > MAX_LENGTH THEN SubSeq(s, 1, MAX_LENGTH - 1) ELSE s

\* sanitize.ts:73-75
clampLength(s) == IF Len(s) > MAX_LENGTH THEN SubSeq(s, 1, MAX_LENGTH) ELSE s

\* sanitize.ts:55-78.  result: what the call returns; lastIndex: the
\* lastIndex of every pattern afterwards; sanitized: the successive values
\* of the local variable sanitized (after trim, pattern removal, escaping,
\* tag stripping and the length limit), none on the early return of line 57
sanitizeInput(input, li) ==
  IF EmptyEquivalent(input)
  THEN [result |-> Return(String(<<>>)), lastIndex |-> li, sanitized |-> <<>>]
  ELSE LET trimmed == trim(input.chars)
           removed == removeDangerousPatterns(trimmed, li)
           escaped == escapeHtml(removed.text)
           stripped == stripTags(escaped)
           clamped == clampLength(stripped)
       IN [result |-> Return(String(clamped)),
           lastIndex |-> removed.lastIndex,
           sanitized |-> <<trimmed, removed.text, escaped, stripped, clamped>>]

\* sanitize.ts:91-95: pattern.test(input) on a global pattern starts at the
\* pattern's lastIndex, stores the end of the match there when it matches
\* and stores 0 when it does not
RECURSIVE TestFrom(_, _, _)
TestFrom(s, li, k) ==
  IF k > NumPatterns THEN [matched |-> FALSE, lastIndex |-> li]
  ELSE LET m == RegExpExec(DANGEROUS_PATTERNS[k], s, li[k])
       IN IF m.found THEN [matched |-> TRUE, lastIndex |-> [li EXCEPT ![k] = m.end]]
          ELSE TestFrom(s, [li EXCEPT ![k] = 0], k + 1)

\* sanitize.ts:85-108; the regular expressions of lines 98 and 103 are
\* literals evaluated anew in every call, so they scan from position 0
isInputSafe(input, li) ==
  IF EmptyEquivalent(input) THEN [result |-> Return(Boolean(TRUE)), lastIndex |-> li]
  ELSE LET t == TestFrom(input.chars, li, 1)
       IN [result |-> Return(Boolean(
                        /\ ~t.matched
                        /\ ~TagExec(input.chars, 0).found
                        /\ ~SchemeExec(input.chars, 0).found)),
           lastIndex |-> t.lastIndex]

\* a variant of sanitizeNoteInput that validates the raw input
sanitizeNoteInputRaw(input, li) ==
  LET inner == sanitizeInput(input, li)
      check == isInputSafe(input, inner.lastIndex)
  IN [result |-> IF check.result.value = Boolean(FALSE)
                 THEN Throw(ERROR_MESSAGE) ELSE inner.result,
      lastIndex |-> check.lastIndex,
      sanitized |-> inner.sanitized,
      safe |-> check.result.value]

\* sanitize.ts:115-124; safe: what isInputSafe(sanitized) returned
sanitizeNoteInput(input, li) ==
  LET inner == sanitizeInput(input, li)
      check == isInputSafe(inner.result.value, inner.lastIndex)
  IN [result |-> IF check.result.value = Boolean(FALSE)
                 THEN Throw(ERROR_MESSAGE) ELSE inner.result,
      lastIndex |-> check.lastIndex,
      sanitized |-> inner.sanitized,
      safe |-> check.result.value]

(***************************************************************************)
(* Arguments of the calls.                                                 *)
(***************************************************************************)
\* the strings made of at most n tokens
RECURSIVE TokenStrings(_, _)
TokenStrings(tokens, n) ==
  IF n = 0 THEN {<<>>}
  ELSE LET shorter == TokenStrings(tokens, n - 1)
       IN shorter \cup {t \o s : t \in tokens, s \in shorter}

Rep(c, n) == [i \in 1..n |-> c]

\* values that are not strings: null, undefined, 0, 42, false, true
NonStrings == {Null, Undefined, Number(0), Number(42), Boolean(FALSE), Boolean(TRUE)}

\* "Java" "vb" "script:" "data:" "<b>" "Hello" "</b>" "onclick=alert(1)"
\* " " "<script>" "</script>"
Tokens ==
  {<<"J", "a", "v", "a">>,
   <<"v", "b">>,
   <<"s", "c", "r", "i", "p", "t", ":">>,
   <<"d", "a", "t", "a", ":">>,
   <<"<", "b", ">">>,
   <<"H", "e", "l", "l", "o">>,
   <<"<", "/", "b", ">">>,
   <<"o", "n", "c", "l", "i", "c", "k", "=", "a", "l", "e", "r", "t", "(", "1", ")">>,
   <<" ">>,
   <<"<", "s", "c", "r", "i", "p", "t", ">">>,
   <<"<", "/", "s", "c", "r", "i", "p", "t", ">">>}

\* what follows the run of "a" in a long argument: nothing, "&", "<b>",
\* "data:", " "
LongTails ==
  {<<>>, <<"&">>, <<"<", "b", ">">>, <<"d", "a", "t", "a", ":">>, <<" ">>}

\* lengths of the run of "a": around the limit, and 1000 above it
LongRuns == ((MAX_LENGTH - PadSlack)..(MAX_LENGTH + PadSlack)) \cup {MAX_LENGTH + 1000}

LongStrings == {Rep("a", n) \o t : n \in LongRuns, t \in LongTails}

\* the arguments of a single call
Inputs ==
  NonStrings \cup {String(s) : s \in TokenStrings(Tokens, MaxTokens) \cup LongStrings}

\* the arguments of the calls of a call sequence: null, undefined, 0, 42,
\* false, "", "Hello", "vbscript:", "vbscript:vbscript:", "onclick=",
\* "onclick=alert(1)", "data:", "javascript:", "dadata:ta:",
\* "Javadata:script:", "<b>", "<script></script>"
CallInputs ==
  {Null, Undefined, Number(0), Number(42), Boolean(FALSE),
   String(<<>>),
   String(<<"H", "e", "l", "l", "o">>),
   String(<<"v", "b", "s", "c", "r", "i", "p", "t", ":">>),
   String(<<"v", "b", "s", "c", "r", "i", "p", "t", ":",
            "v", "b", "s", "c", "r", "i", "p", "t", ":">>),
   String(<<"o", "n", "c", "l", "i", "c", "k", "=">>),
   String(<<"o", "n", "c", "l", "i", "c", "k", "=", "a", "l", "e", "r", "t", "(", "1", ")">>),
   String(<<"d", "a", "t", "a", ":">>),
   String(<<"j", "a", "v", "a", "s", "c", "r", "i", "p", "t", ":">>),
   String(<<"d", "a", "d", "a", "t", "a", ":", "t", "a", ":">>),
   String(<<"J", "a", "v", "a", "d", "a", "t", "a", ":", "s", "c", "r", "i", "p", "t", ":">>),
   String(<<"<", "b", ">">>),
   String(<<"<", "s", "c", "r", "i", "p", "t", ">", "<", "/", "s", "c", "r", "i", "p", "t", ">">>)}

(***************************************************************************)
(* State.                                                                  *)
(*   lastIndex  the lastIndex of each regular expression of                *)
(*              DANGEROUS_PATTERNS, the only state that outlives a call    *)
(*   op, arg, res   the last call: its function, argument and outcome      *)
(*   sanitized  the values the local variable sanitized took in the        *)
(*              sanitizeInput run of the last call                         *)
(*   safe       what isInputSafe returned inside the last                  *)
(*              sanitizeNoteInput call                                     *)
(***************************************************************************)
VARIABLES lastIndex, op, arg, res, sanitized, safe

vars == <<lastIndex, op, arg, res, sanitized, safe>>

ZeroIndex == [k \in 1..NumPatterns |-> 0]

\* module evaluation: every regular expression literal starts with lastIndex 0
Init ==
  /\ lastIndex = ZeroIndex
  /\ op = "none"
  /\ arg = Undefined
  /\ res = Return(Undefined)
  /\ sanitized = <<>>
  /\ safe = Undefined

SanitizeInputCall(x) ==
  \E r \in {sanitizeInput(x, lastIndex)} :
    /\ lastIndex' = r.lastIndex
    /\ op' = "sanitizeInput"
    /\ arg' = x
    /\ res' = r.result
    /\ sanitized' = r.sanitized
    /\ safe' = Undefined

IsInputSafeCall(x) ==
  \E r \in {isInputSafe(x, lastIndex)} :
    /\ lastIndex' = r.lastIndex
    /\ op' = "isInputSafe"
    /\ arg' = x
    /\ res' = r.result
    /\ sanitized' = <<>>
    /\ safe' = Undefined

SanitizeNoteInputCall(x) ==
  \E r \in {sanitizeNoteInput(x, lastIndex)} :
    /\ lastIndex' = r.lastIndex
    /\ op' = "sanitizeNoteInput"
    /\ arg' = x
    /\ res' = r.result
    /\ sanitized' = r.sanitized
    /\ safe' = r.safe

\* any sequence of calls
Next ==
  \E x \in CallInputs :
    \/ SanitizeInputCall(x)
    \/ IsInputSafeCall(x)
    \/ SanitizeNoteInputCall(x)

Spec == Init /\ [][Next]_vars

\* one call in a freshly loaded module
NextSingle ==
  \/ op = "none" /\ \E x \in Inputs : SanitizeInputCall(x)
  \/ op = "none" /\ \E x \in Inputs : IsInputSafeCall(x)
  \/ op = "none" /\ \E x \in Inputs : SanitizeNoteInputCall(x)

SpecSingle == Init /\ [][NextSingle]_vars

(***************************************************************************)
(* Vocabulary of the properties.                                           *)
(***************************************************************************)
\* s contains lit, compared case-insensitively
ContainsCI(s, lit) == \E p \in 0..(Len(s) - Len(lit)) : LiteralAt(lit, s, p)

\* the 8 characters of the entity map
SpecialChars == {"&", "<", ">", "\"", "'", "/", Backtick, "="}

\* the 8 entity strings
EntityStrings ==
  {<<"&", "a", "m", "p", ";">>, <<"&", "l", "t", ";">>, <<"&", "g", "t", ";">>,
   <<"&", "q", "u", "o", "t", ";">>, <<"&", "#", "x", "2", "7", ";">>,
   <<"&", "#", "x", "2", "F", ";">>, <<"&", "#", "x", "6", "0", ";">>,
   <<"&", "#", "x", "3", "D", ";">>}

\* s is ordinary characters and whole entities: no special character but
\* "&", and every "&" begins an entity
WellFormed(s) ==
  \A i \in 1..Len(s) :
    /\ s[i] \notin SpecialChars \ {"&"}
    /\ s[i] = "&" =>
         \E e \in EntityStrings :
           i + Len(e) - 1 <= Len(s) /\ SubSeq(s, i, i + Len(e) - 1) = e

\* some dangerous pattern matches somewhere in s
MatchesPattern(s) ==
  \E k \in 1..NumPatterns : RegExpExec(DANGEROUS_PATTERNS[k], s, 0).found

\* what the safety predicate is documented to answer for the raw value v
DocumentedSafe(v) ==
  \/ EmptyEquivalent(v)
  \/ /\ ~MatchesPattern(v.chars)
     /\ ~\E i, j \in 1..Len(v.chars) : i < j /\ v.chars[i] = "<" /\ v.chars[j] = ">"
     /\ ~ContainsCI(v.chars, <<"j", "a", "v", "a", "s", "c", "r", "i", "p", "t", ":">>)
     /\ ~ContainsCI(v.chars, <<"d", "a", "t", "a", ":">>)

\* the text the last call's sanitizeInput run returned
SanitizedText == IF sanitized = <<>> THEN <<>> ELSE sanitized[5]

ReturnsString == res.kind = "return" /\ res.value.type = "string"

(***************************************************************************)
(* C1.  The string sanitizeInput returns contains none of "<script",       *)
(* "<iframe", "javascript:", "vbscript:", compared case-insensitively.     *)
(***************************************************************************)
NoDangerousSubstring ==
  op = "sanitizeInput" =>
    /\ ReturnsString
    /\ ~ContainsCI(res.value.chars, <<"<", "s", "c", "r", "i", "p", "t">>)
    /\ ~ContainsCI(res.value.chars, <<"<", "i", "f", "r", "a", "m", "e">>)
    /\ ~ContainsCI(res.value.chars, <<"j", "a", "v", "a", "s", "c", "r", "i", "p", "t", ":">>)
    /\ ~ContainsCI(res.value.chars, <<"v", "b", "s", "c", "r", "i", "p", "t", ":">>)

(***************************************************************************)
(* C2.  Whatever calls came before, isInputSafe returns false when the raw *)
(* argument matches a dangerous pattern, holds a "<" followed later by a   *)
(* ">", or contains "javascript:" or "data:"; otherwise, and for           *)
(* empty-equivalent arguments, it returns true.                            *)
(***************************************************************************)
IsInputSafeDecides ==
  op = "isInputSafe" => res = Return(Boolean(DocumentedSafe(arg)))

(***************************************************************************)
(* C3.  No call changes the pattern objects: the lastIndex of every        *)
(* regular expression of DANGEROUS_PATTERNS is after a call what it was    *)
(* before it.                                                              *)
(***************************************************************************)
PatternsNeverMutated == [][lastIndex' = lastIndex]_vars

(***************************************************************************)
(* C4.  sanitizeNoteInput computes t = sanitizeInput(input), evaluates     *)
(* isInputSafe(t), returns exactly t when that is true and throws the      *)
(* fixed message when it is false; sanitizeInput and isInputSafe return a  *)
(* value (a string, a boolean) for every argument.                         *)
(***************************************************************************)
NoteInputContract ==
  /\ op = "sanitizeInput" => ReturnsString
  /\ op = "isInputSafe" => res.kind = "return" /\ res.value.type = "boolean"
  /\ op = "sanitizeNoteInput" =>
       /\ String(SanitizedText) = sanitizeInput(arg, ZeroIndex).result.value
       /\ safe = Boolean(DocumentedSafe(String(SanitizedText)))
       /\ safe = Boolean(TRUE) => res = Return(String(SanitizedText))
       /\ safe = Boolean(FALSE) =>
            res = Throw("Invalid input: Contains potentially dangerous content")

NoteInputThrows ==
  /\ op = "sanitizeNoteInput"
  /\ arg = String(<<"d", "a", "d", "a", "t", "a", ":", "t", "a", ":">>)
  /\ SanitizedText = <<"d", "a", "t", "a", ":">>
  /\ res.kind = "throw"

(***************************************************************************)
(* C5.  The result of sanitizeInput has at most 5000 code units: it is the *)
(* first 5000 code units of the text after trim, removal, escaping and     *)
(* stripping when that text is longer, and that text unchanged otherwise;  *)
(* 6000 "a" give 5000 "a".                                                 *)
(***************************************************************************)
LengthClamp ==
  op = "sanitizeInput" =>
    /\ ReturnsString
    /\ Len(res.value.chars) <= 5000
    /\ sanitized = <<>> => res.value.chars = <<>>
    /\ sanitized # <<>> =>
         IF Len(sanitized[4]) > 5000
         THEN res.value.chars = SubSeq(sanitized[4], 1, 5000)
         ELSE res.value.chars = sanitized[4]
    /\ arg = String(Rep("a", 6000)) => res.value.chars = Rep("a", 5000)

LengthClampCuts ==
  /\ op = "sanitizeInput"
  /\ arg = String(Rep("a", 6000))
  /\ Len(sanitized[4]) = 6000
  /\ Len(res.value.chars) = 5000

(***************************************************************************)
(* C6.  On a trimmed string without special characters and without a match *)
(* of a dangerous pattern, sanitizeInput is the identity up to the limit:  *)
(* it returns the string when it has at most 5000 code units and its first *)
(* 5000 code units otherwise.                                              *)
(***************************************************************************)
IsTrimmed(s) == s = <<>> \/ (s[1] \notin WhiteSpace /\ s[Len(s)] \notin WhiteSpace)

SafeTrimmedText(v) ==
  /\ v.type = "string"
  /\ IsTrimmed(v.chars)
  /\ \A i \in 1..Len(v.chars) : v.chars[i] \notin SpecialChars
  /\ ~MatchesPattern(v.chars)

IdentityOnSafeText ==
  (op = "sanitizeInput" /\ SafeTrimmedText(arg)) =>
    res = Return(String(IF Len(arg.chars) <= 5000 THEN arg.chars
                        ELSE SubSeq(arg.chars, 1, 5000)))

IdentityOnSafeTextCase ==
  /\ op = "sanitizeInput"
  /\ arg = String(<<"H", "e", "l", "l", "o", " ", "H", "e", "l", "l", "o">>)
  /\ SafeTrimmedText(arg)
  /\ res.value = arg

(***************************************************************************)
(* C7.  The tag-stripping step of sanitizeInput changes nothing: the       *)
(* escaped text holds no raw "<", so the result is the escaped text cut to *)
(* the limit, and "<b>Hello</b>" gives "&lt;b&gt;Hello&lt;&#x2F;b&gt;".    *)
(***************************************************************************)
StripIsNoOp ==
  (op = "sanitizeInput" /\ sanitized # <<>>) =>
    /\ \A i \in 1..Len(sanitized[3]) : sanitized[3][i] # "<"
    /\ sanitized[4] = sanitized[3]
    /\ res.value.chars =
         clampLength(escapeHtml(removeDangerousPatterns(trim(arg.chars), ZeroIndex).text))
    /\ arg = String(<<"<", "b", ">", "H", "e", "l", "l", "o", "<", "/", "b", ">">>) =>
         res.value.chars =
           <<"&", "l", "t", ";", "b", "&", "g", "t", ";", "H", "e", "l", "l", "o",
             "&", "l", "t", ";", "&", "#", "x", "2", "F", ";", "b", "&", "g", "t", ";">>

StripIsNoOpCase ==
  /\ op = "sanitizeInput"
  /\ arg = String(<<"<", "b", ">", "H", "e", "l", "l", "o", "<", "/", "b", ">">>)
  /\ sanitized[2] = arg.chars
  /\ Len(res.value.chars) = 29

(***************************************************************************)
(* C8.  The safety check inside sanitizeNoteInput never trips on the       *)
(* event-handler pattern, a tag-block pattern or the tag-like check (the   *)
(* sanitized text has no raw "<" and no raw "="); sanitizeNoteInput throws *)
(* exactly when the sanitized text contains "javascript:", "vbscript:" or  *)
(* "data:"; "onclick=alert(1)" is returned as "alert(1)".                  *)
(***************************************************************************)
NoteInputFailsOnlyOnSchemes ==
  op = "sanitizeNoteInput" =>
    /\ \A i \in 1..Len(SanitizedText) : SanitizedText[i] \notin {"<", "="}
    /\ \A k \in {1, 2, 3, 4, 5, 6, 7, 11} :
         ~RegExpExec(DANGEROUS_PATTERNS[k], SanitizedText, 0).found
    /\ ~TagExec(SanitizedText, 0).found
    /\ res.kind = "throw" <=>
         \/ ContainsCI(SanitizedText, <<"j", "a", "v", "a", "s", "c", "r", "i", "p", "t", ":">>)
         \/ ContainsCI(SanitizedText, <<"v", "b", "s", "c", "r", "i", "p", "t", ":">>)
         \/ ContainsCI(SanitizedText, <<"d", "a", "t", "a", ":">>)
    /\ arg = String(<<"o", "n", "c", "l", "i", "c", "k", "=", "a", "l", "e", "r", "t", "(", "1", ")">>) =>
         res = Return(String(<<"a", "l", "e", "r", "t", "(", "1", ")">>))

OnclickIsRemoved ==
  /\ op = "sanitizeNoteInput"
  /\ arg = String(<<"o", "n", "c", "l", "i", "c", "k", "=", "a", "l", "e", "r", "t", "(", "1", ")">>)
  /\ res = Return(String(<<"a", "l", "e", "r", "t", "(", "1", ")">>))

(***************************************************************************)
(* C9.  The string sanitizeInput returns is ordinary characters and whole  *)
(* entities, every "&" beginning a complete entity, also when the length   *)
(* limit has cut the text.                                                 *)
(***************************************************************************)
WellFormedEscapedText ==
  op = "sanitizeInput" => ReturnsString /\ WellFormed(res.value.chars)

(***************************************************************************)
(* C10.  sanitizeInput and sanitizeNoteInput do not depend on the calls    *)
(* before them: each gives what it gives in a freshly loaded module, and   *)
(* every pattern's lastIndex is 0 when sanitizeInput returns.              *)
(***************************************************************************)
HistoryIndependent ==
  /\ op = "sanitizeInput" =>
       /\ res = sanitizeInput(arg, ZeroIndex).result
       /\ lastIndex = ZeroIndex
  /\ op = "sanitizeNoteInput" => res = sanitizeNoteInput(arg, ZeroIndex).result

\* the part of C10 that the code satisfies: the outcomes are those of a
\* freshly loaded module, and lastIndex is 0 after every sanitizeInput call
\* that got past the early return of line 57
HistoryIndependentOutcomes ==
  /\ op = "sanitizeInput" => res = sanitizeInput(arg, ZeroIndex).result
  /\ op = "sanitizeNoteInput" => res = sanitizeNoteInput(arg, ZeroIndex).result
  /\ (op = "sanitizeInput" /\ ~EmptyEquivalent(arg)) => lastIndex = ZeroIndex
====
